---------------------------- MODULE Spec2Model ----------------------------
(***************************************************************************)
(* Ordered binary decision diagrams of Reza-Ghz/obdd: the variable         *)
(* registry of boolean.py and the node store, diagram store, negation,     *)
(* ITE, restrict and support of obdd.py.                                   *)
(*                                                                         *)
(* A Python object is a record of its fields plus "id", which tells apart  *)
(* two objects built from the same constructor arguments: "x is y" is      *)
(* x = y on these records.  The n-th object built from given arguments has *)
(* id n-1 (the variable serial counts them).                               *)
(***************************************************************************)
EXTENDS Integers, Sequences, FiniteSets, TLC

VARIABLES
    VARIABLES_,  \* boolean.VARIABLES: (names, indices) -> Variable
    _UNIQIDS,    \* boolean._UNIQIDS: (names, indices) -> uniqid
    _COUNT,      \* boolean._COUNT
    _VARS,       \* obdd._VARS: uniqid -> OBDDVariable
    _NODES,      \* obdd._NODES: (root, lo, hi) -> OBDDNode, weakly held
    _BDDS,       \* obdd._BDDS: node -> diagram, weakly held
    serial,      \* constructor arguments -> number of objects built from them
    held,        \* the diagrams the caller holds a reference to
    last,        \* the last call: its name, arguments and result
    nops,        \* number of diagram operations performed, or of calls threads made
    requested,   \* history: the identities requested, and what each request returned first
    pc,          \* per thread: position in the code (concurrent runs)
    loc          \* per thread: local variables (concurrent runs)

vars == <<VARIABLES_, _UNIQIDS, _COUNT, _VARS, _NODES, _BDDS, serial, held,
          last, nops, requested, pc, loc>>

(***************************************************************************)
(* Bounds                                                                  *)
(***************************************************************************)
MaxOps == 2

\* the names a caller asks for in runs that build diagrams
Names == {"a", "b", "c"}

\* uniqids that can be assigned to Names
Ids == 1..Cardinality(Names)

(***************************************************************************)
(* Python values passed by callers                                         *)
(***************************************************************************)
PyNone == [t |-> "NoneType"]
PyStr(s) == [t |-> "str", s |-> s]
PyInt(i) == [t |-> "int", i |-> i]
PyTuple(e) == [t |-> "tuple", e |-> e]
PyFloat == [t |-> "float"]

Range(f) == {f[x] : x \in DOMAIN f}

\* dict.get(key, default)
Get(d, key, default) == IF key \in DOMAIN d THEN d[key] ELSE default

\* d[key] = value
Put(d, key, value) == [k \in DOMAIN d \cup {key} |-> IF k = key THEN value ELSE d[k]]

\* the entry of a weak dictionary disappears
Del(d, key) == [k \in DOMAIN d \ {key} |-> d[k]]

(***************************************************************************)
(* obdd.py: nodes                                                          *)
(***************************************************************************)
None == [t |-> "NoneType"]

OBDDNode(root, lo, hi, id) == [root |-> root, lo |-> lo, hi |-> hi, id |-> id]

BDDNODEZERO == OBDDNode(-1, None, None, 0)
BDDNODEONE == OBDDNode(-2, None, None, 0)

\* the next object built from arguments "args" (a tagged tuple)
NextId(ser, args) == Get(ser, args, 0)
Built(ser, args) == Put(ser, args, Get(ser, args, 0) + 1)

NodeArgs(root, lo, hi) == <<"OBDDNode", root, lo, hi>>

\* The module globals are passed as one record S with fields VARIABLES,
\* UNIQIDS, COUNT, VARS, NODES, BDDS and serial; a function returns its
\* result together with the globals after the call.

\* "v = e; rest" is written Bind(e, LAMBDA v : rest)
Bind(v, rest(_)) == rest(v)

\* a faulty _obddnode that never looks into _NODES
_obddnodeUnshared(S, root, lo, hi) ==
    IF lo = hi THEN [n |-> lo, S |-> S]
    ELSE LET node == OBDDNode(root, lo, hi, NextId(S.serial, NodeArgs(root, lo, hi)))
         IN [n |-> node,
             S |-> [S EXCEPT !.NODES = Put(S.NODES, <<root, lo, hi>>, node),
                             !.serial = Built(S.serial, NodeArgs(root, lo, hi))]]

\* _obddnode(root, lo, hi): returns the node n
_obddnode(S, root, lo, hi) ==
    IF lo = hi THEN [n |-> lo, S |-> S]
    ELSE LET key == <<root, lo, hi>> IN
         IF key \in DOMAIN S.NODES
         THEN [n |-> S.NODES[key], S |-> S]
         ELSE LET node == OBDDNode(root, lo, hi, NextId(S.serial, NodeArgs(root, lo, hi)))
              IN [n |-> node,
                  S |-> [S EXCEPT !.NODES = Put(S.NODES, key, node),
                                  !.serial = Built(S.serial, NodeArgs(root, lo, hi))]]

RECURSIVE _neg(_, _)
\* a faulty _neg that leaves the terminals as they are
_negTerminalsKept(S, node) ==
    IF node = BDDNODEZERO \/ node = BDDNODEONE THEN [n |-> node, S |-> S]
    ELSE Bind(_neg(S, node.lo), LAMBDA l :
         Bind(_neg(l.S, node.hi), LAMBDA h :
         _obddnode(h.S, node.root, l.n, h.n)))

_neg(S, node) ==
    IF node = BDDNODEZERO THEN [n |-> BDDNODEONE, S |-> S]
    ELSE IF node = BDDNODEONE THEN [n |-> BDDNODEZERO, S |-> S]
    ELSE Bind(_neg(S, node.lo), LAMBDA l :
         Bind(_neg(l.S, node.hi), LAMBDA h :
         _obddnode(h.S, node.root, l.n, h.n)))

\* the empty dict
EmptyDict == [k \in {} |-> None]

\* _restrict(node, npoint, cache): returns n, the globals S and the cache
RECURSIVE _restrict(_, _, _, _)
\* a faulty _restrict that follows the wrong child
_restrictWrongChild(S, node, npoint, cache) ==
    IF node = BDDNODEZERO \/ node = BDDNODEONE
    THEN [n |-> node, S |-> S, cache |-> cache]
    ELSE IF node \in DOMAIN cache
    THEN [n |-> cache[node], S |-> S, cache |-> cache]
    ELSE IF node.root \notin DOMAIN npoint
    THEN Bind(_restrict(S, node.lo, npoint, cache), LAMBDA l :
         Bind(_restrict(l.S, node.hi, npoint, l.cache), LAMBDA h :
         Bind(_obddnode(h.S, node.root, l.n, h.n), LAMBDA r :
         [n |-> r.n, S |-> r.S, cache |-> Put(h.cache, node, r.n)])))
    ELSE Bind(npoint[node.root], LAMBDA val :
         Bind(CASE val = BDDNODEZERO -> node.hi
                [] val = BDDNODEONE -> node.lo, LAMBDA child :
         Bind(_restrict(S, child, npoint, cache), LAMBDA r :
         [n |-> r.n, S |-> r.S, cache |-> Put(r.cache, node, r.n)])))

_restrict(S, node, npoint, cache) ==
    IF node = BDDNODEZERO \/ node = BDDNODEONE
    THEN [n |-> node, S |-> S, cache |-> cache]
    ELSE IF node \in DOMAIN cache
    THEN [n |-> cache[node], S |-> S, cache |-> cache]
    ELSE IF node.root \notin DOMAIN npoint
    THEN Bind(_restrict(S, node.lo, npoint, cache), LAMBDA l :
         Bind(_restrict(l.S, node.hi, npoint, l.cache), LAMBDA h :
         Bind(_obddnode(h.S, node.root, l.n, h.n), LAMBDA r :
         [n |-> r.n, S |-> r.S, cache |-> Put(h.cache, node, r.n)])))
    ELSE Bind(npoint[node.root], LAMBDA val :
         Bind(CASE val = BDDNODEZERO -> node.lo
                [] val = BDDNODEONE -> node.hi, LAMBDA child :
         Bind(_restrict(S, child, npoint, cache), LAMBDA r :
         [n |-> r.n, S |-> r.S, cache |-> Put(r.cache, node, r.n)])))

Min(s) == CHOOSE x \in s : \A y \in s : x <= y

Max(s) == CHOOSE x \in s : \A y \in s : x >= y

\* a faulty choice of the root: the largest one
IteRootLargest(f, g, h) == Max({node.root : node \in {x \in {f, g, h} : x.root > 0}})

\* the root _ite splits on: the smallest root among the non-terminal f, g, h
IteRoot(f, g, h) == Min({node.root : node \in {x \in {f, g, h} : x.root > 0}})

RECURSIVE _ite(_, _, _, _)
\* a faulty _ite that exchanges the children of the node it builds
_iteChildrenExchanged(S, f, g, h) ==
    IF g = BDDNODEONE /\ h = BDDNODEZERO THEN [n |-> f, S |-> S]
    ELSE IF g = BDDNODEZERO /\ h = BDDNODEONE THEN _neg(S, f)
    ELSE IF f = BDDNODEONE THEN [n |-> g, S |-> S]
    ELSE IF f = BDDNODEZERO THEN [n |-> h, S |-> S]
    ELSE IF g = h THEN [n |-> g, S |-> S]
    ELSE Bind(IteRoot(f, g, h), LAMBDA root :
         Bind((root :> BDDNODEZERO), LAMBDA npoint0 :
         Bind((root :> BDDNODEONE), LAMBDA npoint1 :
         Bind(_restrict(S, f, npoint0, EmptyDict), LAMBDA fv0 :
         Bind(_restrict(fv0.S, g, npoint0, EmptyDict), LAMBDA gv0 :
         Bind(_restrict(gv0.S, h, npoint0, EmptyDict), LAMBDA hv0 :
         Bind(_restrict(hv0.S, f, npoint1, EmptyDict), LAMBDA fv1 :
         Bind(_restrict(fv1.S, g, npoint1, EmptyDict), LAMBDA gv1 :
         Bind(_restrict(gv1.S, h, npoint1, EmptyDict), LAMBDA hv1 :
         Bind(_ite(hv1.S, fv0.n, gv0.n, hv0.n), LAMBDA lo :
         Bind(_ite(lo.S, fv1.n, gv1.n, hv1.n), LAMBDA hi :
         _obddnode(hi.S, root, hi.n, lo.n))))))))))))

_ite(S, f, g, h) ==
    IF g = BDDNODEONE /\ h = BDDNODEZERO THEN [n |-> f, S |-> S]
    ELSE IF g = BDDNODEZERO /\ h = BDDNODEONE THEN _neg(S, f)
    ELSE IF f = BDDNODEONE THEN [n |-> g, S |-> S]
    ELSE IF f = BDDNODEZERO THEN [n |-> h, S |-> S]
    ELSE IF g = h THEN [n |-> g, S |-> S]
    ELSE Bind(IteRoot(f, g, h), LAMBDA root :
         Bind((root :> BDDNODEZERO), LAMBDA npoint0 :
         Bind((root :> BDDNODEONE), LAMBDA npoint1 :
         Bind(_restrict(S, f, npoint0, EmptyDict), LAMBDA fv0 :
         Bind(_restrict(fv0.S, g, npoint0, EmptyDict), LAMBDA gv0 :
         Bind(_restrict(gv0.S, h, npoint0, EmptyDict), LAMBDA hv0 :
         Bind(_restrict(hv0.S, f, npoint1, EmptyDict), LAMBDA fv1 :
         Bind(_restrict(fv1.S, g, npoint1, EmptyDict), LAMBDA gv1 :
         Bind(_restrict(gv1.S, h, npoint1, EmptyDict), LAMBDA hv1 :
         Bind(_ite(hv1.S, fv0.n, gv0.n, hv0.n), LAMBDA lo :
         Bind(_ite(lo.S, fv1.n, gv1.n, hv1.n), LAMBDA hi :
         _obddnode(hi.S, root, lo.n, hi.n))))))))))))

(***************************************************************************)
(* boolean.py: the variable registry                                       *)
(***************************************************************************)
Raise(exc) == [exc |-> exc]
Raised(r) == "exc" \in DOMAIN r

\* var, lines 14-42: the checks and the (names, indices) of a request, or
\* the exception raised
VarKey(name, index) ==
    IF name.t \notin {"str", "tuple"} THEN Raise("TypeError")
    ELSE LET names == IF name.t = "str" THEN <<name>> ELSE name.e IN
    IF names = <<>> THEN Raise("ValueError")
    ELSE IF \E i \in DOMAIN names : names[i].t # "str" THEN Raise("TypeError")
    ELSE IF index.t \notin {"NoneType", "int", "tuple"} THEN Raise("TypeError")
    ELSE LET indices == IF index.t = "NoneType" THEN <<>>
                        ELSE IF index.t = "int" THEN <<index>> ELSE index.e
             \* the first index that fails a check decides the exception
             bad == {i \in DOMAIN indices : indices[i].t # "int" \/ indices[i].i < 0}
         IN IF bad # {}
            THEN (IF indices[Min(bad)].t # "int" THEN Raise("TypeError")
                  ELSE Raise("ValueError"))
            ELSE [names |-> [i \in DOMAIN names |-> names[i].s],
                  indices |-> [i \in DOMAIN indices |-> indices[i].i]]

VariableArgs(names, indices) == <<"Variable", names, indices>>

\* a faulty Variable.__init__ that leaves _COUNT as it is
Variable__init__CountKept(S, names, indices) ==
    LET key == <<names, indices>>
        uniqid == Get(S.UNIQIDS, key, S.COUNT)
    IN IF uniqid = S.COUNT
       THEN [uniqid |-> uniqid, S |-> [S EXCEPT !.UNIQIDS = Put(S.UNIQIDS, key, uniqid)]]
       ELSE [uniqid |-> uniqid, S |-> S]

\* Variable.__init__(names, indices), run by one thread without interruption:
\* returns the uniqid it stores in the object
Variable__init__(S, names, indices) ==
    LET key == <<names, indices>>
        uniqid == Get(S.UNIQIDS, key, S.COUNT)
    IN IF uniqid = S.COUNT
       THEN [uniqid |-> uniqid,
             S |-> [S EXCEPT !.COUNT = S.COUNT + 1,
                             !.UNIQIDS = Put(S.UNIQIDS, key, uniqid)]]
       ELSE [uniqid |-> uniqid, S |-> S]

\* Variable(names, indices): a new object
Variable(S, names, indices) ==
    Bind(Variable__init__(S, names, indices), LAMBDA i :
    Bind(VariableArgs(names, indices), LAMBDA args :
    [v |-> [cls |-> "Variable", names |-> names, indices |-> indices,
            uniqid |-> i.uniqid, id |-> NextId(S.serial, args)],
     S |-> [i.S EXCEPT !.serial = Built(S.serial, args)]]))

\* boolean.var(name, index): returns the Variable v, or the exception
var(S, name, index) ==
    Bind(VarKey(name, index), LAMBDA k :
    IF Raised(k) THEN [exc |-> k.exc, S |-> S]
    ELSE Bind(<<k.names, k.indices>>, LAMBDA key :
         IF key \in DOMAIN S.VARIABLES
         THEN [v |-> S.VARIABLES[key], S |-> S]
         ELSE Bind(Variable(S, k.names, k.indices), LAMBDA n :
              [v |-> n.v, S |-> [n.S EXCEPT !.VARIABLES = Put(n.S.VARIABLES, key, n.v)]])))

(***************************************************************************)
(* obdd.py: diagrams                                                       *)
(***************************************************************************)
BDDConstant(node, value) ==
    [cls |-> "BDDConstant", node |-> node, value |-> value, id |-> 0]

BDDZERO == BDDConstant(BDDNODEZERO, 0)
BDDONE == BDDConstant(BDDNODEONE, 1)

DiagramArgs(node) == <<"OrderedBinaryDecisionDiagram", node>>

\* OrderedBinaryDecisionDiagram(node): a new object
OrderedBinaryDecisionDiagram(S, node) ==
    [d |-> [cls |-> "OrderedBinaryDecisionDiagram", node |-> node,
            id |-> NextId(S.serial, DiagramArgs(node))],
     S |-> [S EXCEPT !.serial = Built(S.serial, DiagramArgs(node))]]

\* _obdd(node): returns the diagram d
_obdd(S, node) ==
    IF node \in DOMAIN S.BDDS THEN [d |-> S.BDDS[node], S |-> S]
    ELSE Bind(OrderedBinaryDecisionDiagram(S, node), LAMBDA n :
         [d |-> n.d, S |-> [n.S EXCEPT !.BDDS = Put(n.S.BDDS, node, n.d)]])

\* _obdd applied to the node a call returned
ObddOf(r) == _obdd(r.S, r.n)

OBDDVariableArgs(names, indices) == <<"OBDDVariable", names, indices>>

\* OBDDVariable(bvar): a new object, a Variable and a diagram at once
OBDDVariable(S, bvar) ==
    Bind(Variable__init__(S, bvar.names, bvar.indices), LAMBDA i :
    Bind(_obddnode(i.S, bvar.uniqid, BDDNODEZERO, BDDNODEONE), LAMBDA n :
    Bind(OBDDVariableArgs(bvar.names, bvar.indices), LAMBDA args :
    [d |-> [cls |-> "OBDDVariable", names |-> bvar.names, indices |-> bvar.indices,
            uniqid |-> i.uniqid, node |-> n.n, id |-> NextId(S.serial, args)],
     S |-> [n.S EXCEPT !.serial = Built(n.S.serial, args)]])))

\* obddvar(name, index): returns the variable diagram d, or the exception
obddvar(S, name, index) ==
    Bind(var(S, name, index), LAMBDA b :
    IF Raised(b) THEN b
    ELSE IF b.v.uniqid \in DOMAIN b.S.VARS
    THEN [d |-> b.S.VARS[b.v.uniqid], S |-> b.S]
    ELSE Bind(OBDDVariable(b.S, b.v), LAMBDA n :
         [d |-> n.d,
          S |-> [n.S EXCEPT !.VARS = Put(n.S.VARS, b.v.uniqid, n.d),
                            !.BDDS = Put(n.S.BDDS, n.d.node, n.d)]]))

IsDiagram(obj) == "cls" \in DOMAIN obj

\* OrderedBinaryDecisionDiagram.box(obj), for a diagram or one of 0, "0", 1, "1"
box(obj) ==
    IF IsDiagram(obj) THEN obj
    ELSE IF obj \in {PyInt(0), PyStr("0")} THEN BDDZERO
    ELSE IF obj \in {PyInt(1), PyStr("1")} THEN BDDONE
    ELSE Raise("TypeError")

__invert__(S, self) == ObddOf(_neg(S, self.node))

__or__(S, self, other) ==
    Bind(box(other).node, LAMBDA other_node :
    ObddOf(_ite(S, self.node, BDDNODEONE, other_node)))

__and__(S, self, other) ==
    Bind(box(other).node, LAMBDA other_node :
    ObddOf(_ite(S, self.node, other_node, BDDNODEZERO)))

__xor__(S, self, other) ==
    Bind(box(other).node, LAMBDA other_node :
    Bind(_neg(S, other_node), LAMBDA g :
    ObddOf(_ite(g.S, self.node, g.n, other_node))))

__rshift__(S, self, other) ==
    Bind(box(other).node, LAMBDA other_node :
    Bind(_neg(S, self.node), LAMBDA f :
    ObddOf(_ite(f.S, f.n, BDDNODEONE, other_node))))

__rrshift__(S, self, other) ==
    Bind(box(other).node, LAMBDA other_node :
    Bind(_neg(S, other_node), LAMBDA f :
    ObddOf(_ite(f.S, f.n, BDDNODEONE, self.node))))

\* the dict comprehension of restrict: a later item of point overwrites an
\* earlier one with the same root (points are given as sequences of items)
RECURSIVE NPoint(_, _)
NPoint(point, k) ==
    IF k = 0 THEN EmptyDict
    ELSE Put(NPoint(point, k - 1), point[k][1].node.root, box(point[k][2]).node)

\* restrict(point), point the items (variable diagram, value) of a dict
restrict(S, self, point) ==
    Bind(NPoint(point, Len(point)), LAMBDA npoint :
    ObddOf(_restrict(S, self.node, npoint, EmptyDict)))

is_zero(self) == self.node = BDDNODEZERO
is_one(self) == self.node = BDDNODEONE

equivalent(self, other) == self.node = box(other).node

\* _dfs_postorder(node, visited): the nodes it yields, and visited afterwards
RECURSIVE _dfs_postorder(_, _)
_dfs_postorder(node, visited) ==
    Bind(IF node.lo # None THEN _dfs_postorder(node.lo, visited)
         ELSE [out |-> <<>>, visited |-> visited], LAMBDA l :
    Bind(IF node.hi # None THEN _dfs_postorder(node.hi, l.visited)
         ELSE [out |-> <<>>, visited |-> l.visited], LAMBDA h :
    IF node \notin h.visited
    THEN [out |-> l.out \o h.out \o <<node>>, visited |-> h.visited \cup {node}]
    ELSE [out |-> l.out \o h.out, visited |-> h.visited]))

dfs_postorder(self) == _dfs_postorder(self.node, {}).out

Reversed(s) == [i \in 1..Len(s) |-> s[Len(s) + 1 - i]]

\* the loop of inputs over the first k yielded nodes
RECURSIVE InputsLoop(_, _, _)
InputsLoop(S, nodes, k) ==
    IF k = 0 THEN <<>>
    ELSE Bind(InputsLoop(S, nodes, k - 1), LAMBDA inputs_ :
         IF nodes[k].root > 0 /\ S.VARS[nodes[k].root] \notin Range(inputs_)
         THEN Append(inputs_, S.VARS[nodes[k].root])
         ELSE inputs_)

\* the inputs property: the support
inputs(S, self) ==
    Bind(dfs_postorder(self), LAMBDA nodes : Reversed(InputsLoop(S, nodes, Len(nodes))))

\* Function.top
top(S, self) ==
    Bind(inputs(S, self), LAMBDA inputs_ : IF inputs_ # <<>> THEN inputs_[1] ELSE None)

\* _expr2obddnode(expr), expr a diagram
RECURSIVE _expr2obddnode(_, _)
_expr2obddnode(S, expr) ==
    IF is_zero(expr) THEN [n |-> BDDNODEZERO, S |-> S]
    ELSE IF is_one(expr) THEN [n |-> BDDNODEONE, S |-> S]
    ELSE Bind(top(S, expr), LAMBDA top_ :
         Bind(obddvar(S, PyTuple([i \in DOMAIN top_.names |-> PyStr(top_.names[i])]),
                         PyTuple([i \in DOMAIN top_.indices |-> PyInt(top_.indices[i])])),
              LAMBDA reg :
         Bind(restrict(reg.S, expr, <<<<top_, PyInt(0)>>>>), LAMBDA e0 :
         Bind(_expr2obddnode(e0.S, e0.d), LAMBDA lo :
         Bind(restrict(lo.S, expr, <<<<top_, PyInt(1)>>>>), LAMBDA e1 :
         Bind(_expr2obddnode(e1.S, e1.d), LAMBDA hi :
         _obddnode(hi.S, top_.uniqid, lo.n, hi.n)))))))

expr2obdd(S, expr) == ObddOf(_expr2obddnode(S, expr))

(***************************************************************************)
(* What a node denotes                                                     *)
(***************************************************************************)
Assignments == [Ids -> BOOLEAN]

RECURSIVE Eval(_, _)
Eval(node, asg) ==
    IF node = BDDNODEONE THEN TRUE
    ELSE IF node = BDDNODEZERO THEN FALSE
    ELSE IF asg[node.root] THEN Eval(node.hi, asg) ELSE Eval(node.lo, asg)

\* the Boolean function of a node: the assignments it maps to true
Sem(node) == {asg \in Assignments : Eval(node, asg)}

\* the nodes reachable from a node, itself included
RECURSIVE Reach(_)
Reach(node) ==
    IF node.root < 0 THEN {node} ELSE {node} \cup Reach(node.lo) \cup Reach(node.hi)

\* the roots of the internal nodes reachable from a node
Roots(node) == {n.root : n \in {m \in Reach(node) : m.root > 0}}

Derived(d) == IsDiagram(d) /\ d.cls = "OrderedBinaryDecisionDiagram"

DiagramOps ==
    {"__invert__", "__or__", "__and__", "__xor__", "__rshift__", "__rrshift__",
     "restrict", "expr2obdd", "_ite"}

(***************************************************************************)
(* The program state and the calls a single-threaded caller makes          *)
(***************************************************************************)
Globals ==
    [VARIABLES |-> VARIABLES_, UNIQIDS |-> _UNIQIDS, COUNT |-> _COUNT, VARS |-> _VARS,
     NODES |-> _NODES, BDDS |-> _BDDS, serial |-> serial]

Install(S) ==
    /\ VARIABLES_' = S.VARIABLES
    /\ _UNIQIDS' = S.UNIQIDS
    /\ _COUNT' = S.COUNT
    /\ _VARS' = S.VARS
    /\ _NODES' = S.NODES
    /\ _BDDS' = S.BDDS
    /\ serial' = S.serial

\* the threads of concurrent runs
Threads == {"T1", "T2"}

Init ==
    /\ VARIABLES_ = EmptyDict
    /\ _UNIQIDS = EmptyDict
    /\ _COUNT = 1
    /\ _VARS = EmptyDict
    /\ _NODES = (<<-1, None, None>> :> BDDNODEZERO) @@ (<<-2, None, None>> :> BDDNODEONE)
    /\ _BDDS = (BDDNODEZERO :> BDDZERO) @@ (BDDNODEONE :> BDDONE)
    /\ serial = EmptyDict
    /\ held = {}
    /\ last = [op |-> "import"]
    /\ nops = 0
    /\ requested = [order |-> <<>>, var |-> EmptyDict, obddvar |-> EmptyDict,
                    rejected |-> FALSE]
    /\ pc = [t \in Threads |-> "idle"]
    /\ loc = [t \in Threads |-> None]

\* the history of variable requests (the identities in the order of their
\* first request, the first object each function returned for an identity,
\* whether a request was rejected) after a request for key: boolean.var
\* returned bvar (to the caller, or to obddvar), and obddvar returned ovar
Requested(key, bvar, ovar) ==
    [order |-> IF key \in Range(requested.order) THEN requested.order
               ELSE Append(requested.order, key),
     var |-> IF key \notin DOMAIN requested.var
             THEN Put(requested.var, key, bvar) ELSE requested.var,
     obddvar |-> IF ovar # None /\ key \notin DOMAIN requested.obddvar
                 THEN Put(requested.obddvar, key, ovar) ELSE requested.obddvar,
     rejected |-> requested.rejected]

\* boolean.var(name, index) returned r to the caller
VarReturned(name, index, r) ==
    /\ Install(r.S)
    /\ last' = IF Raised(r) THEN [op |-> "var", res |-> Raise(r.exc)]
               ELSE [op |-> "var", args |-> <<name, index>>, res |-> r.v]
    /\ requested' = IF Raised(r) THEN [requested EXCEPT !.rejected = TRUE]
                    ELSE Requested(<<r.v.names, r.v.indices>>, r.v, None)
    /\ UNCHANGED <<held, nops, pc, loc>>

VarCall(name, index) == VarReturned(name, index, var(Globals, name, index))

\* obddvar(name, index) returned r to the caller, who keeps the diagram
ObddvarReturned(name, index, r) ==
    /\ Install(r.S)
    /\ last' = IF Raised(r) THEN [op |-> "obddvar", res |-> Raise(r.exc)]
               ELSE [op |-> "obddvar", args |-> <<name, index>>, res |-> r.d]
    /\ requested' = IF Raised(r) THEN [requested EXCEPT !.rejected = TRUE]
                    ELSE Requested(<<r.d.names, r.d.indices>>,
                                   r.S.VARIABLES[<<r.d.names, r.d.indices>>], r.d)
    /\ held' = IF Raised(r) THEN held ELSE held \cup {r.d}
    /\ UNCHANGED <<nops, pc, loc>>

ObddvarCall(name, index) == ObddvarReturned(name, index, obddvar(Globals, name, index))

\* the values a caller passes where a diagram is expected
Raw == {PyInt(0), PyInt(1), PyStr("0"), PyStr("1")}

\* a diagram operation returned r; the caller keeps the result
Returned(op, args, r) ==
    /\ nops < MaxOps
    /\ Install(r.S)
    /\ held' = held \cup {r.d}
    /\ last' = [op |-> op, args |-> args, res |-> r.d]
    /\ nops' = nops + 1
    /\ UNCHANGED <<requested, pc, loc>>

Invert ==
    \E f \in held : Returned("__invert__", <<f>>, __invert__(Globals, f))

Or ==
    \E f \in held, g \in held \cup Raw : Returned("__or__", <<f, g>>, __or__(Globals, f, g))

And ==
    \E f \in held, g \in held \cup Raw : Returned("__and__", <<f, g>>, __and__(Globals, f, g))

Xor ==
    \E f \in held, g \in held \cup Raw : Returned("__xor__", <<f, g>>, __xor__(Globals, f, g))

Rshift ==
    \E f \in held, g \in held \cup Raw :
        Returned("__rshift__", <<f, g>>, __rshift__(Globals, f, g))

\* other >> self with other not a diagram
RRshift ==
    \E f \in held, g \in Raw :
        Returned("__rrshift__", <<f, g>>, __rrshift__(Globals, f, g))

\* the variable diagrams among the held ones
HeldVars == {v \in held : v.cls = "OBDDVariable"}

Restrict ==
    \E f \in held, x \in HeldVars, v \in Raw \cup {BDDZERO, BDDONE} :
        Returned("restrict", <<f, x, v>>, restrict(Globals, f, <<<<x, v>>>>))

Expr2obdd ==
    \E f \in held : Returned("expr2obdd", <<f>>, expr2obdd(Globals, f))

\* _ite(f, g, h) on the nodes of three diagrams, wrapped as the operators wrap it
Ite ==
    \E f \in held, g \in held, h \in held :
        Returned("_ite", <<f, g, h>>, ObddOf(_ite(Globals, f.node, g.node, h.node)))

\* the caller reads f.inputs
Inputs ==
    \E f \in held :
        /\ last' = [op |-> "inputs", args |-> <<f>>, res |-> inputs(Globals, f)]
        /\ UNCHANGED <<VARIABLES_, _UNIQIDS, _COUNT, _VARS, _NODES, _BDDS, serial, held,
                       nops, requested, pc, loc>>

Next ==
    \/ \E n \in Names : ObddvarCall(PyStr(n), PyNone)
    \/ Invert
    \/ Or
    \/ And
    \/ Xor
    \/ Rshift
    \/ RRshift
    \/ Restrict
    \/ Expr2obdd
    \/ Ite
    \/ Inputs

Spec == Init /\ [][Next]_vars

(***************************************************************************)
(* The variable registry alone, with the requests var rejects              *)
(***************************************************************************)
NameInputs ==
    {PyStr("a"), PyTuple(<<PyStr("a")>>), PyTuple(<<PyStr("b"), PyStr("a")>>),
     PyTuple(<<>>), PyFloat, PyTuple(<<PyStr("a"), PyFloat>>)}

IndexInputs ==
    {PyNone, PyInt(0), PyTuple(<<PyInt(0)>>), PyInt(-1), PyStr("0"),
     PyTuple(<<PyInt(0), PyInt(-1)>>)}

NextRegistry ==
    \/ \E name \in NameInputs, index \in IndexInputs : VarCall(name, index)
    \/ \E name \in NameInputs, index \in IndexInputs : ObddvarCall(name, index)

SpecRegistry == Init /\ [][NextRegistry]_vars

(***************************************************************************)
(* Diagram building interleaved with reclamation.  _NODES and _BDDS are    *)
(* WeakValueDictionary: an entry disappears once nothing else refers to    *)
(* its value.  _VARS, the two constants, the caller, a _BDDS entry (to its *)
(* key) and a node (to its children) refer strongly.                       *)
(***************************************************************************)
StrongDiagrams == held \cup Range(_VARS) \cup {BDDZERO, BDDONE}

\* a faulty account in which a node does not keep its children alive
StrongNodesNoChildren ==
    {d.node : d \in StrongDiagrams} \cup DOMAIN _BDDS

\* the nodes something other than their own _NODES entry refers to
StrongNodes ==
    UNION {Reach(d.node) : d \in StrongDiagrams}
        \cup UNION {Reach(n) : n \in DOMAIN _BDDS}
        \cup UNION {{m.lo, m.hi} : m \in {x \in Range(_NODES) : x.root > 0}}

\* the caller lets go of a diagram
Drop ==
    \E d \in held :
        /\ held' = held \ {d}
        /\ last' = [op |-> "del"]
        /\ UNCHANGED <<VARIABLES_, _UNIQIDS, _COUNT, _VARS, _NODES, _BDDS, serial,
                       nops, requested, pc, loc>>

\* a diagram nothing refers to is reclaimed: its _BDDS entry disappears
ReclaimDiagram ==
    \E node \in DOMAIN _BDDS :
        /\ _BDDS[node] \notin StrongDiagrams
        /\ _BDDS' = Del(_BDDS, node)
        /\ last' = [op |-> "gc"]
        /\ UNCHANGED <<VARIABLES_, _UNIQIDS, _COUNT, _VARS, _NODES, serial, held,
                       nops, requested, pc, loc>>

\* a node nothing refers to is reclaimed: its _NODES entry disappears
ReclaimNode ==
    \E key \in DOMAIN _NODES :
        /\ _NODES[key] \notin StrongNodes
        /\ _NODES' = Del(_NODES, key)
        /\ last' = [op |-> "gc"]
        /\ UNCHANGED <<VARIABLES_, _UNIQIDS, _COUNT, _VARS, _BDDS, serial, held,
                       nops, requested, pc, loc>>

\* the names a caller asks for in runs with reclamation
NamesGC == {"a", "b"}

NextGC ==
    \/ \E n \in NamesGC : ObddvarCall(PyStr(n), PyNone)
    \/ Invert
    \/ Ite
    \/ Restrict
    \/ Drop
    \/ ReclaimDiagram
    \/ ReclaimNode

SpecGC == Init /\ [][NextGC]_vars

(***************************************************************************)
(* Two threads in boolean.var.  A thread may be switched out between any   *)
(* two steps below; pc[t] is the line thread t executes next and loc[t]    *)
(* its local variables.                                                    *)
(***************************************************************************)
Set(t, label, locals) ==
    /\ pc' = [pc EXCEPT ![t] = label]
    /\ loc' = [loc EXCEPT ![t] = locals]

Idle(t) == pc[t] \in {"idle", "returned"}

\* var, lines 10-43: the arguments pass the checks
var_enter(t) ==
    \E name \in {"a", "b"} :
        /\ Idle(t)
        /\ nops < MaxOps
        /\ nops' = nops + 1
        /\ Bind(VarKey(PyStr(name), PyNone), LAMBDA k :
                Set(t, "var:45", [fn |-> "var", key |-> <<k.names, k.indices>>,
                                  default |-> None, uniqid |-> None, count |-> None,
                                  v |-> None]))
        /\ UNCHANGED <<VARIABLES_, _UNIQIDS, _COUNT, _VARS, _NODES, _BDDS, serial, held,
                       last, requested>>

\* var, line 45: v = VARIABLES[(names, indices)], or KeyError
var_lookup(t) ==
    /\ pc[t] = "var:45"
    /\ IF loc[t].key \in DOMAIN VARIABLES_
       THEN Set(t, "var:49", [loc[t] EXCEPT !.v = VARIABLES_[loc[t].key]])
       ELSE Set(t, "Variable:64", loc[t])
    /\ UNCHANGED <<VARIABLES_, _UNIQIDS, _COUNT, _VARS, _NODES, _BDDS, serial, held,
                   last, nops, requested>>

\* Variable.__init__, line 64: with threading.Lock() makes a new lock and
\* acquires it; no other thread has this lock, so the thread never waits
Variable_lock(t) ==
    /\ pc[t] = "Variable:64"
    /\ Set(t, "Variable:65", loc[t])
    /\ UNCHANGED <<VARIABLES_, _UNIQIDS, _COUNT, _VARS, _NODES, _BDDS, serial, held,
                   last, nops, requested>>

\* line 65: the argument _COUNT of _UNIQIDS.get is read
Variable_default(t) ==
    /\ pc[t] = "Variable:65"
    /\ Set(t, "Variable:65.get", [loc[t] EXCEPT !.default = _COUNT])
    /\ UNCHANGED <<VARIABLES_, _UNIQIDS, _COUNT, _VARS, _NODES, _BDDS, serial, held,
                   last, nops, requested>>

\* line 65: self.uniqid = _UNIQIDS.get((names, indices), default)
Variable_get(t) ==
    /\ pc[t] = "Variable:65.get"
    /\ Set(t, "Variable:66",
           [loc[t] EXCEPT !.uniqid = Get(_UNIQIDS, loc[t].key, loc[t].default)])
    /\ UNCHANGED <<VARIABLES_, _UNIQIDS, _COUNT, _VARS, _NODES, _BDDS, serial, held,
                   last, nops, requested>>

\* line 66: if self.uniqid == _COUNT
Variable_compare(t) ==
    /\ pc[t] = "Variable:66"
    /\ Set(t, IF loc[t].uniqid = _COUNT THEN "Variable:67" ELSE "Variable:70", loc[t])
    /\ UNCHANGED <<VARIABLES_, _UNIQIDS, _COUNT, _VARS, _NODES, _BDDS, serial, held,
                   last, nops, requested>>

\* line 67: _COUNT += 1 reads _COUNT ...
Variable_count_load(t) ==
    /\ pc[t] = "Variable:67"
    /\ Set(t, "Variable:67.store", [loc[t] EXCEPT !.count = _COUNT])
    /\ UNCHANGED <<VARIABLES_, _UNIQIDS, _COUNT, _VARS, _NODES, _BDDS, serial, held,
                   last, nops, requested>>

\* ... and writes the sum
Variable_count_store(t) ==
    /\ pc[t] = "Variable:67.store"
    /\ _COUNT' = loc[t].count + 1
    /\ Set(t, "Variable:68", loc[t])
    /\ UNCHANGED <<VARIABLES_, _UNIQIDS, _VARS, _NODES, _BDDS, serial, held,
                   last, nops, requested>>

\* line 68: _UNIQIDS[(names, indices)] = self.uniqid
Variable_insert(t) ==
    /\ pc[t] = "Variable:68"
    /\ _UNIQIDS' = Put(_UNIQIDS, loc[t].key, loc[t].uniqid)
    /\ Set(t, "Variable:70", loc[t])
    /\ UNCHANGED <<VARIABLES_, _COUNT, _VARS, _NODES, _BDDS, serial, held,
                   last, nops, requested>>

\* lines 70-71 and var, line 47: the lock is released, v is the new object
Variable_return(t) ==
    /\ pc[t] = "Variable:70"
    /\ Bind(VariableArgs(loc[t].key[1], loc[t].key[2]), LAMBDA args :
           /\ Set(t, "var:48",
                  [loc[t] EXCEPT !.v = [cls |-> "Variable", names |-> loc[t].key[1],
                                        indices |-> loc[t].key[2],
                                        uniqid |-> loc[t].uniqid,
                                        id |-> NextId(serial, args)]])
           /\ serial' = Built(serial, args))
    /\ UNCHANGED <<VARIABLES_, _UNIQIDS, _COUNT, _VARS, _NODES, _BDDS, held,
                   last, nops, requested>>

\* var, line 48: VARIABLES[(names, indices)] = v
var_insert(t) ==
    /\ pc[t] = "var:48"
    /\ VARIABLES_' = Put(VARIABLES_, loc[t].key, loc[t].v)
    /\ Set(t, "var:49", loc[t])
    /\ UNCHANGED <<_UNIQIDS, _COUNT, _VARS, _NODES, _BDDS, serial, held,
                   last, nops, requested>>

\* var, line 49: return v
var_return(t) ==
    /\ pc[t] = "var:49"
    /\ Set(t, "returned", loc[t])
    /\ UNCHANGED <<VARIABLES_, _UNIQIDS, _COUNT, _VARS, _NODES, _BDDS, serial, held,
                   last, nops, requested>>

NextVarRace ==
    \/ \E t \in Threads : var_enter(t)
    \/ \E t \in Threads : var_lookup(t)
    \/ \E t \in Threads : Variable_lock(t)
    \/ \E t \in Threads : Variable_default(t)
    \/ \E t \in Threads : Variable_get(t)
    \/ \E t \in Threads : Variable_compare(t)
    \/ \E t \in Threads : Variable_count_load(t)
    \/ \E t \in Threads : Variable_count_store(t)
    \/ \E t \in Threads : Variable_insert(t)
    \/ \E t \in Threads : Variable_return(t)
    \/ \E t \in Threads : var_insert(t)
    \/ \E t \in Threads : var_return(t)

SpecVarRace == Init /\ [][NextVarRace]_vars

(***************************************************************************)
(* Two threads in _obddnode                                                *)
(***************************************************************************)
\* _obddnode(root, lo, hi) is called; line 78: if lo is hi
_obddnode_enter(t) ==
    \E root \in 1..2, lo \in {BDDNODEZERO, BDDNODEONE}, hi \in {BDDNODEZERO, BDDNODEONE} :
        /\ Idle(t)
        /\ nops < MaxOps
        /\ nops' = nops + 1
        /\ IF lo = hi
           THEN Set(t, "_obddnode:86", [fn |-> "_obddnode", key |-> <<root, lo, hi>>,
                                       node |-> lo])
           ELSE Set(t, "_obddnode:83", [fn |-> "_obddnode", key |-> <<root, lo, hi>>,
                                       node |-> None])
        /\ UNCHANGED <<VARIABLES_, _UNIQIDS, _COUNT, _VARS, _NODES, _BDDS, serial, held,
                       last, requested>>

\* line 83: node = _NODES[key], or KeyError
_obddnode_lookup(t) ==
    /\ pc[t] = "_obddnode:83"
    /\ IF loc[t].key \in DOMAIN _NODES
       THEN Set(t, "_obddnode:86", [loc[t] EXCEPT !.node = _NODES[loc[t].key]])
       ELSE Set(t, "_obddnode:85", loc[t])
    /\ UNCHANGED <<VARIABLES_, _UNIQIDS, _COUNT, _VARS, _NODES, _BDDS, serial, held,
                   last, nops, requested>>

\* line 85: node = OBDDNode(*key) ...
_obddnode_construct(t) ==
    /\ pc[t] = "_obddnode:85"
    /\ Bind(NodeArgs(loc[t].key[1], loc[t].key[2], loc[t].key[3]), LAMBDA args :
           /\ Set(t, "_obddnode:85.store",
                  [loc[t] EXCEPT !.node = OBDDNode(loc[t].key[1], loc[t].key[2],
                                                   loc[t].key[3], NextId(serial, args))])
           /\ serial' = Built(serial, args))
    /\ UNCHANGED <<VARIABLES_, _UNIQIDS, _COUNT, _VARS, _NODES, _BDDS, held,
                   last, nops, requested>>

\* ... and _NODES[key] = node
_obddnode_insert(t) ==
    /\ pc[t] = "_obddnode:85.store"
    /\ _NODES' = Put(_NODES, loc[t].key, loc[t].node)
    /\ Set(t, "_obddnode:86", loc[t])
    /\ UNCHANGED <<VARIABLES_, _UNIQIDS, _COUNT, _VARS, _BDDS, serial, held,
                   last, nops, requested>>

\* line 86: return node
_obddnode_return(t) ==
    /\ pc[t] = "_obddnode:86"
    /\ Set(t, "returned", loc[t])
    /\ UNCHANGED <<VARIABLES_, _UNIQIDS, _COUNT, _VARS, _NODES, _BDDS, serial, held,
                   last, nops, requested>>

NextNodeRace ==
    \/ \E t \in Threads : _obddnode_enter(t)
    \/ \E t \in Threads : _obddnode_lookup(t)
    \/ \E t \in Threads : _obddnode_construct(t)
    \/ \E t \in Threads : _obddnode_insert(t)
    \/ \E t \in Threads : _obddnode_return(t)

SpecNodeRace == Init /\ [][NextNodeRace]_vars

(***************************************************************************)
(* C1  Canonicity: any two diagrams the caller holds that denote the same  *)
(* Boolean function wrap the identical node, and equivalent(f, g) is true  *)
(* exactly when f and g denote the same function.                          *)
(***************************************************************************)
Canonicity ==
    /\ \A d1 \in held, d2 \in held :
           Sem(d1.node) = Sem(d2.node) => d1.node = d2.node
    /\ \A f \in held, g \in held \cup Raw :
           equivalent(f, g) <=> (Sem(f.node) = Sem(box(g).node))

\* an operation on a derived diagram returned the variable diagram built by
\* obddvar that denotes the same function, and it is none of the operands
CanonicityWitness ==
    /\ last.op \in DiagramOps
    /\ Derived(last.args[1])
    /\ last.res.cls = "OBDDVariable"
    /\ \A i \in DOMAIN last.args : last.args[i] # last.res

(***************************************************************************)
(* C2  _ite(f, g, h) denotes "if f then g else h", and f|g, f&g, f^g,      *)
(* f>>g denote OR, AND, XOR and implication of the operands' functions.    *)
(***************************************************************************)
IteSem(f, g, h) ==
    {asg \in Assignments : IF asg \in Sem(f) THEN asg \in Sem(g) ELSE asg \in Sem(h)}

IteCorrect ==
    LET f == last.args[1].node
        g == box(last.args[2]).node
    IN /\ last.op = "_ite" => Sem(last.res.node) = IteSem(f, g, last.args[3].node)
       /\ last.op = "__or__" => Sem(last.res.node) = Sem(f) \cup Sem(g)
       /\ last.op = "__and__" => Sem(last.res.node) = Sem(f) \cap Sem(g)
       /\ last.op = "__xor__" =>
              Sem(last.res.node) = (Sem(f) \ Sem(g)) \cup (Sem(g) \ Sem(f))
       /\ last.op = "__rshift__" =>
              Sem(last.res.node) = (Assignments \ Sem(f)) \cup Sem(g)
       /\ last.op = "__rrshift__" =>
              Sem(last.res.node) = (Assignments \ Sem(g)) \cup Sem(f)

\* _ite took its general case on three non-terminal nodes, one of them the
\* result of an earlier operation, and built a new node
IteWitness ==
    /\ last.op = "_ite"
    /\ Derived(last.args[1])
    /\ last.args[2].node.root > 0
    /\ last.args[3].node.root > 0
    /\ last.args[2] # last.args[3]
    /\ Derived(last.res)
    /\ \A i \in 1..3 : last.args[i] # last.res

(***************************************************************************)
(* C3  Two threads that requested the same identity from boolean.var have  *)
(* received the same uniqid.                                               *)
(***************************************************************************)
UniqidAtomic ==
    \A t1 \in Threads, t2 \in Threads :
        (/\ pc[t1] = "returned" /\ pc[t2] = "returned"
         /\ loc[t1].fn = "var" /\ loc[t2].fn = "var"
         /\ loc[t1].key = loc[t2].key)
        => loc[t1].v.uniqid = loc[t2].v.uniqid

(***************************************************************************)
(* C4  Two threads that called _obddnode with the same (root, lo, hi),     *)
(* lo distinct from hi, have obtained the same node instance.              *)
(***************************************************************************)
NodeAtomic ==
    \A t1 \in Threads, t2 \in Threads :
        (/\ pc[t1] = "returned" /\ pc[t2] = "returned"
         /\ loc[t1].fn = "_obddnode" /\ loc[t2].fn = "_obddnode"
         /\ loc[t1].key = loc[t2].key
         /\ loc[t1].key[2] # loc[t1].key[3])
        => loc[t1].node = loc[t2].node

(***************************************************************************)
(* C5  support(d) is exactly the variables labelling the internal nodes    *)
(* reachable from d, each once, in strictly ascending uniqid order.        *)
(***************************************************************************)
SupportInOrder ==
    last.op = "inputs" =>
        /\ Range(last.res) = {_VARS[r] : r \in Roots(last.args[1].node)}
        /\ \A i \in DOMAIN last.res, j \in DOMAIN last.res :
               i < j => last.res[i].uniqid < last.res[j].uniqid

(***************************************************************************)
(* C6  restrict(f, {x: v}) denotes the cofactor of f with x fixed to v, no *)
(* node labelled x is reachable from the result, and restricting the       *)
(* result for x to any value returns the identical diagram.                *)
(***************************************************************************)
Cofactor(node, x, v) ==
    {asg \in Assignments : [asg EXCEPT ![x] = v] \in Sem(node)}

RestrictCorrect ==
    last.op = "restrict" =>
        LET f == last.args[1]
            x == last.args[2]
            v == box(last.args[3]) = BDDONE
        IN /\ Sem(last.res.node) = Cofactor(f.node, x.uniqid, v)
           /\ x.node.root \notin Roots(last.res.node)
           /\ \A w \in Raw : restrict(Globals, last.res, <<<<x, w>>>>).d = last.res

\* a diagram that depends on x and on another variable was restricted for x
\* to true
RestrictWitness ==
    /\ last.op = "restrict"
    /\ Derived(last.args[1])
    /\ last.args[2].node.root \in Roots(last.args[1].node)
    /\ box(last.args[3]) = BDDONE
    /\ last.res.node.root > 0

(***************************************************************************)
(* C7  For the operands f, g of an operation: NOT(NOT(f)) is f,            *)
(* NOT(OR(f,g)) is AND(NOT(f), NOT(g)), XOR(f,f) is the zero diagram,      *)
(* OR(f, NOT(f)) is the one diagram, AND(f, TRUE) is f and AND(f, FALSE)   *)
(* is the zero diagram, as identities of nodes.                            *)
(***************************************************************************)
NotNot(S, f) ==
    Bind(__invert__(S, f), LAMBDA n : __invert__(n.S, n.d).d.node = f.node)

DeMorgan(S, f, g) ==
    Bind(__or__(S, f, g), LAMBDA o :
    Bind(__invert__(o.S, o.d), LAMBDA l :
    Bind(__invert__(l.S, f), LAMBDA nf :
    Bind(__invert__(nf.S, g), LAMBDA ng :
    __and__(ng.S, nf.d, ng.d).d.node = l.d.node))))

ExcludedMiddle(S, f) ==
    Bind(__invert__(S, f), LAMBDA n : __or__(n.S, f, n.d).d = BDDONE)

Laws(S, f, g) ==
    /\ NotNot(S, f)
    /\ DeMorgan(S, f, g)
    /\ __xor__(S, f, f).d = BDDZERO
    /\ ExcludedMiddle(S, f)
    /\ __and__(S, f, BDDONE).d.node = f.node
    /\ __and__(S, f, PyInt(1)).d.node = f.node
    /\ __and__(S, f, BDDZERO).d = BDDZERO
    /\ __and__(S, f, PyInt(0)).d = BDDZERO

AlgebraicLaws ==
    last.op \in {"__or__", "__and__", "__xor__", "__rshift__"} =>
        Laws(Globals, last.args[1], box(last.args[2]))

\* the laws were evaluated on two different non-constant operands, one of
\* them the result of an earlier operation
LawsWitness ==
    /\ last.op = "__or__"
    /\ Derived(last.args[1])
    /\ last.args[1].node.lo.root > 0
    /\ IsDiagram(last.args[2])
    /\ last.args[2].node.root > 0
    /\ last.args[1] # last.args[2]

(***************************************************************************)
(* C9  Ordering: every internal node of the node store has a root strictly *)
(* smaller than the root of each of its non-terminal children.             *)
(***************************************************************************)
Ordered(node) ==
    node.root > 0 =>
        /\ node.lo.root > 0 => node.root < node.lo.root
        /\ node.hi.root > 0 => node.root < node.hi.root

OrderingInvariant == \A key \in DOMAIN _NODES : Ordered(_NODES[key])

\* an operation built a node over three variables on top of two internal
\* children
OrderingWitness ==
    /\ last.op \in DiagramOps
    /\ Derived(last.res)
    /\ last.res.node.lo.root > 0
    /\ last.res.node.hi.root > 0
    /\ Cardinality(Roots(last.res.node)) = 3
    /\ \E i \in DOMAIN last.args : Derived(last.args[i])

(***************************************************************************)
(* C8  Sequential registry: the n-th distinct identity requested has       *)
(* uniqid n, whatever requests were repeated or rejected in between; a     *)
(* request for an identity returns the uniqid and the instance its first   *)
(* request returned; no uniqid belongs to two identities.                  *)
(***************************************************************************)
RegistrySequential ==
    /\ DOMAIN _UNIQIDS = Range(requested.order)
    /\ \A n \in DOMAIN requested.order : _UNIQIDS[requested.order[n]] = n
    /\ \A k1 \in DOMAIN _UNIQIDS, k2 \in DOMAIN _UNIQIDS :
           _UNIQIDS[k1] = _UNIQIDS[k2] => k1 = k2
    /\ \A key \in DOMAIN requested.var :
           /\ requested.var[key].uniqid = _UNIQIDS[key]
           /\ VARIABLES_[key] = requested.var[key]
    /\ \A key \in DOMAIN requested.obddvar :
           requested.obddvar[key].uniqid = _UNIQIDS[key]
    /\ (last.op \in {"var", "obddvar"} /\ ~Raised(last.res)) =>
           LET k == VarKey(last.args[1], last.args[2])
               key == <<k.names, k.indices>>
           IN /\ last.res.uniqid = _UNIQIDS[key]
              /\ last.op = "var" => last.res = requested.var[key]
              /\ last.op = "obddvar" => last.res = requested.obddvar[key]

\* after a rejected request and three identities, the identity requested
\* second is requested again in another spelling
RegistryWitness ==
    /\ requested.rejected
    /\ Len(requested.order) >= 3
    /\ last.op = "var"
    /\ ~Raised(last.res)
    /\ last.args[1].t = "tuple"
    /\ last.res.uniqid = 2
    /\ last.res.id = 0

(***************************************************************************)
(* C10  Node uniqueness under reclamation: no two live internal nodes have *)
(* the same (root, lo, hi), and every internal node reachable from a       *)
(* diagram the caller holds is the node the node store has under its key,  *)
(* so that _obddnode returns it.                                           *)
(***************************************************************************)
LiveNodes == {n \in Range(_NODES) \cup StrongNodes : n.root > 0}

NodeUniqueness ==
    /\ \A n \in LiveNodes, m \in LiveNodes :
           (n.root = m.root /\ n.lo = m.lo /\ n.hi = m.hi) => n = m
    /\ \A d \in held : \A n \in Reach(d.node) :
           n.root > 0 =>
               /\ <<n.root, n.lo, n.hi>> \in DOMAIN _NODES
               /\ _NODES[<<n.root, n.lo, n.hi>>] = n
               /\ _obddnode(Globals, n.root, n.lo, n.hi).n = n

\* the caller holds a diagram over a node that was built again after its
\* first instance was reclaimed
ReclamationWitness ==
    \E d \in held : \E n \in Reach(d.node) : n.root > 0 /\ n.id >= 1


=============================================================================
